---------------------------- MODULE Spec2Model ----------------------------
(***************************************************************************)
(* A model of json_to_excel_converter.py: the record parser                *)
(* (JSONParser.parse_file), the flattener and field extractor              *)
(* (JSONFlattener), the sheet router (ExcelGenerator) and the conversion   *)
(* request flow (main).                                                    *)
(*                                                                         *)
(* JSON values are tagged records:                                         *)
(*   [t |-> "null"]            None                                        *)
(*   [t |-> "bool", b |-> B]   True / False                                *)
(*   [t |-> "num",  n |-> N]   an int                                      *)
(*   [t |-> "str",  s |-> S]   a str                                       *)
(*   [t |-> "list", el |-> <<v1, ..., vn>>]                                *)
(*   [t |-> "dict", kv |-> <<<<k1, v1>>, ..., <<kn, vn>>>>]                *)
(* A dict keeps its insertion order and its keys are pairwise distinct.    *)
(* File content is a sequence of one-character strings.                    *)
(***************************************************************************)
EXTENDS Integers, Sequences, FiniteSets, TLC

VARIABLES
    pc,          \* the position of the operation under study
    content,     \* parse_file / main: the text of the uploaded file
    records,     \* parse_file: the local `records`; group_by: its argument
    format_desc, \* parse_file: the local `format_desc`
    attempts,    \* parse_file: the parse attempts made so far, in order
    error,       \* the exception raised, or NoError
    call,        \* the function under study and its other arguments
    ret          \* what the function under study returned

vars == <<pc, content, records, format_desc, attempts, error, call, ret>>

----------------------------------------------------------------------------
(* Bounds of the model                                                     *)

MaxContentLen == 5

\* flatten_dict: the longest list of dicts among the inputs
MaxListLen == 4

\* group_by_instrument_type: the longest record sequence among the inputs
MaxRecords == 3

----------------------------------------------------------------------------
(* JSON values                                                             *)

JNull == [t |-> "null"]
JBool(b) == [t |-> "bool", b |-> b]
JNum(n) == [t |-> "num", n |-> n]
JStr(s) == [t |-> "str", s |-> s]
JList(el) == [t |-> "list", el |-> el]
JDict(kv) == [t |-> "dict", kv |-> kv]

IsDict(v) == v.t = "dict"
IsList(v) == v.t = "list"

NoError == [exc |-> "none"]
\* The value of a variable the operation under study does not use.
Unused == <<>>
Raise(exc, msg) == [exc |-> exc, msg |-> msg]

----------------------------------------------------------------------------
(* Text: str.strip, str.split, str.startswith on character sequences       *)

\* The characters file content is drawn from.
Alphabet == {"{", "}", "[", "]", "1", "\n", " "}

\* The characters str.strip() removes, among those of Alphabet.
PyWhitespace == {" ", "\n"}

\* The characters json's WHITESPACE pattern skips, among those of Alphabet.
JsonWhitespace == {" ", "\n"}

RECURSIVE LStrip(_)
LStrip(s) ==
    IF s # <<>> /\ Head(s) \in PyWhitespace THEN LStrip(Tail(s)) ELSE s

RECURSIVE RStrip(_)
RStrip(s) ==
    IF s # <<>> /\ s[Len(s)] \in PyWhitespace
    THEN RStrip(SubSeq(s, 1, Len(s) - 1))
    ELSE s

\* str.strip()
Strip(s) == RStrip(LStrip(s))

\* s.split('\n'): always at least one piece, the last one possibly empty.
RECURSIVE SplitFrom(_, _, _)
SplitFrom(s, i, cur) ==
    IF i > Len(s) THEN <<cur>>
    ELSE IF s[i] = "\n" THEN <<cur>> \o SplitFrom(s, i + 1, <<>>)
    ELSE SplitFrom(s, i + 1, Append(cur, s[i]))

SplitLines(s) == SplitFrom(s, 1, <<>>)

\* s.startswith(c) for a one-character c
StartsWith(s, c) == s # <<>> /\ s[1] = c

----------------------------------------------------------------------------
(* json.loads on character sequences.  A parse yields                      *)
(*   [ok |-> TRUE, val |-> v, end |-> i]   v ends before position i        *)
(*   [ok |-> FALSE, msg |-> m]             JSONDecodeError(m)              *)

ParseOk(v, e) == [ok |-> TRUE, val |-> v, end |-> e]
ParseFail(m) == [ok |-> FALSE, msg |-> m]

RECURSIVE SkipWS(_, _)
SkipWS(s, i) ==
    IF i <= Len(s) /\ s[i] \in JsonWhitespace THEN SkipWS(s, i + 1) ELSE i

\* The end of the run of digits that starts at i, and its value.
RECURSIVE ScanNumber(_, _, _)
ScanNumber(s, i, acc) ==
    IF i <= Len(s) /\ s[i] = "1"
    THEN ScanNumber(s, i + 1, acc * 10 + 1)
    ELSE ParseOk(JNum(acc), i)

\* scanner.scan_once with JSONObject and JSONArray
RECURSIVE ScanOnce(_, _)
ScanOnce(s, i) ==
    IF i > Len(s) THEN ParseFail("Expecting value")
    ELSE IF s[i] = "{" THEN
        LET j == SkipWS(s, i + 1) IN
        IF j <= Len(s) /\ s[j] = "}"
        THEN ParseOk(JDict(<<>>), j + 1)
        ELSE ParseFail("Expecting property name enclosed in double quotes")
    ELSE IF s[i] = "[" THEN
        LET j == SkipWS(s, i + 1) IN
        IF j <= Len(s) /\ s[j] = "]"
        THEN ParseOk(JList(<<>>), j + 1)
        ELSE LET r == ScanOnce(s, j) IN
             IF ~r.ok THEN r
             ELSE LET k == SkipWS(s, r.end) IN
                  IF k <= Len(s) /\ s[k] = "]"
                  THEN ParseOk(JList(<<r.val>>), k + 1)
                  ELSE ParseFail("Expecting ',' delimiter")
    ELSE IF s[i] = "1" THEN ScanNumber(s, i, 0)
    ELSE ParseFail("Expecting value")

\* json.loads(s): JSONDecoder.decode
json_loads(s) ==
    LET r == ScanOnce(s, SkipWS(s, 1)) IN
    IF ~r.ok THEN r
    ELSE IF SkipWS(s, r.end) # Len(s) + 1 THEN ParseFail("Extra data")
    ELSE r


----------------------------------------------------------------------------
(* JSONParser.parse_file                                                   *)

\* All contents of at most n characters.
RECURSIVE ContentsUpTo(_)
ContentsUpTo(n) ==
    IF n = 0 THEN {<<>>}
    ELSE LET shorter == ContentsUpTo(n - 1) IN
         shorter \cup {Append(c, a) : c \in {x \in shorter : Len(x) = n - 1},
                                      a \in Alphabet}

Contents == ContentsUpTo(MaxContentLen)

\* lines = content.strip().split('\n')
Lines(c) == SplitLines(Strip(c))

\* NdjsonGuard without the single-line case.
NdjsonGuard_MultiLineOnly(lines) == Len(lines) > 1

\* len(lines) > 1 or (len(lines) == 1 and lines[0].startswith('{'))
NdjsonGuard(lines) ==
    Len(lines) > 1 \/ (Len(lines) = 1 /\ StartsWith(lines[1], "{"))

\* NdjsonLoop skipping a line that fails instead of ending the attempt.
RECURSIVE NdjsonLoop_SkipBad(_, _, _)
NdjsonLoop_SkipBad(lines, i, acc) ==
    IF i > Len(lines) THEN [ok |-> TRUE, records |-> acc]
    ELSE LET line == Strip(lines[i]) IN
         IF line = <<>> THEN NdjsonLoop_SkipBad(lines, i + 1, acc)
         ELSE LET r == json_loads(line) IN
              IF r.ok THEN NdjsonLoop_SkipBad(lines, i + 1, Append(acc, r.val))
              ELSE NdjsonLoop_SkipBad(lines, i + 1, acc)

\* The for loop over the lines, from line i on, with `records` being acc:
\* every non-blank stripped line is parsed and appended; the first line that
\* fails ends the loop and leaves in `records` what was appended before it.
RECURSIVE NdjsonLoop(_, _, _)
NdjsonLoop(lines, i, acc) ==
    IF i > Len(lines) THEN [ok |-> TRUE, records |-> acc]
    ELSE LET line == Strip(lines[i]) IN
         IF line = <<>> THEN NdjsonLoop(lines, i + 1, acc)
         ELSE LET r == json_loads(line) IN
              IF r.ok THEN NdjsonLoop(lines, i + 1, Append(acc, r.val))
              ELSE [ok |-> FALSE, records |-> acc]

\* WholeDocument swallowing the decode error instead of raising.
WholeDocument_Swallow(c, recs, desc) ==
    LET r == json_loads(c) IN
    IF ~r.ok
    THEN [ok |-> TRUE, records |-> recs, format_desc |-> desc]
    ELSE IF IsList(r.val)
    THEN [ok |-> TRUE, records |-> r.val.el, format_desc |-> "JSON Array"]
    ELSE IF IsDict(r.val)
    THEN [ok |-> TRUE, records |-> <<r.val>>,
          format_desc |-> "Single JSON Object"]
    ELSE [ok |-> TRUE, records |-> recs, format_desc |-> desc]

\* The second try block, entered with the locals recs and desc.
WholeDocument(c, recs, desc) ==
    LET r == json_loads(c) IN
    IF ~r.ok
    THEN [ok |-> FALSE,
          error |-> Raise("ValueError", "Unable to parse JSON: " \o r.msg)]
    ELSE IF IsList(r.val)
    THEN [ok |-> TRUE, records |-> r.val.el, format_desc |-> "JSON Array"]
    ELSE IF IsDict(r.val)
    THEN [ok |-> TRUE, records |-> <<r.val>>,
          format_desc |-> "Single JSON Object"]
    ELSE [ok |-> TRUE, records |-> recs, format_desc |-> desc]

\* parse_file as one call: what it returns or raises.
parse_file(c) ==
    LET lines == Lines(c)
        nd == IF NdjsonGuard(lines) THEN NdjsonLoop(lines, 1, <<>>)
              ELSE [ok |-> FALSE, records |-> <<>>]
    IN  IF NdjsonGuard(lines) /\ nd.ok
        THEN [ok |-> TRUE, records |-> nd.records,
              format_desc |-> "JSON Lines (NDJSON)"]
        ELSE WholeDocument(c, nd.records, "Unknown")

\* parse_file step by step.  pc = "ndjson": at the first attempt, with
\* records = [] and format_desc = "Unknown"; "whole": at the second try
\* block; "returned" / "raised": the call is over.
ParseInit ==
    /\ content \in Contents
    /\ pc = "ndjson"
    /\ records = <<>>
    /\ format_desc = "Unknown"
    /\ attempts = <<>>
    /\ error = NoError
    /\ call = [fn |-> "parse_file"]
    /\ ret = Unused

NdjsonAttempt ==
    /\ pc = "ndjson"
    /\ NdjsonGuard(Lines(content))
    /\ LET nd == NdjsonLoop(Lines(content), 1, records) IN
       /\ records' = nd.records
       /\ format_desc' = IF nd.ok THEN "JSON Lines (NDJSON)" ELSE format_desc
       /\ pc' = IF nd.ok THEN "returned" ELSE "whole"
    /\ attempts' = Append(attempts, "ndjson")
    /\ UNCHANGED <<content, error, call, ret>>

NdjsonSkipped ==
    /\ pc = "ndjson"
    /\ ~NdjsonGuard(Lines(content))
    /\ pc' = "whole"
    /\ UNCHANGED <<content, records, format_desc, attempts, error, call, ret>>

WholeAttempt ==
    /\ pc = "whole"
    /\ LET w == WholeDocument(content, records, format_desc) IN
       /\ pc' = IF w.ok THEN "returned" ELSE "raised"
       /\ records' = IF w.ok THEN w.records ELSE records
       /\ format_desc' = IF w.ok THEN w.format_desc ELSE format_desc
       /\ error' = IF w.ok THEN error ELSE w.error
    /\ attempts' = Append(attempts, "whole")
    /\ UNCHANGED <<content, call, ret>>

ParseNext == NdjsonAttempt \/ NdjsonSkipped \/ WholeAttempt

SpecParse == ParseInit /\ [][ParseNext]_vars


(* Claims about parse_file                                                 *)

\* The non-blank lines of the trimmed content, each stripped.
NonBlankLines(c) ==
    LET stripped == [i \in 1..Len(Lines(c)) |-> Strip(Lines(c)[i])]
    IN  SelectSeq(stripped, LAMBDA l : l # <<>>)

\* The trimmed content has more than one line, or one line beginning with
\* '{', and every non-blank line is a JSON value on its own.
IsNdjson(c) ==
    /\ \/ Len(Lines(c)) > 1
       \/ Len(Lines(c)) = 1 /\ Lines(c)[1] # <<>> /\ Lines(c)[1][1] = "{"
    /\ \A i \in 1..Len(NonBlankLines(c)) : json_loads(NonBlankLines(c)[i]).ok

ParseOver == pc \in {"returned", "raised"}

\* C1: when the trimmed content has more than one line, or one line that
\* begins with '{', and every non-blank line parses on its own, parse_file
\* returns exactly the per-line values in line order (blank lines skipped)
\* with the label "JSON Lines (NDJSON)", and the whole-document parse is
\* never attempted.
C1_NdjsonResult ==
    IsNdjson(content) =>
        /\ pc \in {"ndjson", "returned"}
        /\ pc = "returned" =>
            /\ records = [i \in 1..Len(NonBlankLines(content)) |->
                             json_loads(NonBlankLines(content)[i]).val]
            /\ format_desc = "JSON Lines (NDJSON)"
            /\ attempts = <<"ndjson">>

\* C1 witness: a three-line content with a blank middle line was returned as
\* two NDJSON records.
C1_Witness ==
    /\ pc = "returned"
    /\ IsNdjson(content)
    /\ Len(Lines(content)) = 3
    /\ Len(records) = 2
    /\ format_desc = "JSON Lines (NDJSON)"

\* C2: parse_file raises (a ValueError carrying the JSON decoder's message)
\* exactly when the line-by-line attempt was skipped or failed and the whole
\* content is not a JSON value, which includes empty content; otherwise it
\* returns a (records, label) pair and nothing is raised.
C2_ParseErrorIff ==
    ParseOver =>
        /\ pc = "raised" <=> (~IsNdjson(content) /\ ~json_loads(content).ok)
        /\ pc = "raised" =>
              error = Raise("ValueError", "Unable to parse JSON: "
                                          \o json_loads(content).msg)
        /\ pc = "returned" =>
              /\ error = NoError
              /\ format_desc \in {"JSON Lines (NDJSON)", "JSON Array",
                                  "Single JSON Object", "Unknown"}
        /\ content = <<>> => pc = "raised"

\* C2 witness: the line-by-line attempt was made and failed, the whole
\* document did not parse either, and the call raised.
C2_Witness ==
    /\ pc = "raised"
    /\ attempts = <<"ndjson", "whole">>
    /\ error.exc = "ValueError"

----------------------------------------------------------------------------
(* Python's str() and repr() of a JSON value, as ', '.join(str(item) ...)  *)
(* uses them                                                               *)

Digits == <<"0", "1", "2", "3", "4", "5", "6", "7", "8", "9">>

\* str(n) for an int n >= 0
RECURSIVE IntStr(_)
IntStr(n) ==
    IF n < 10 THEN Digits[n + 1]
    ELSE IntStr(n \div 10) \o Digits[(n % 10) + 1]

\* sep.join(parts) for a sequence of strings
RECURSIVE Join(_, _)
Join(sep, parts) ==
    IF parts = <<>> THEN ""
    ELSE IF Len(parts) = 1 THEN parts[1]
    ELSE parts[1] \o sep \o Join(sep, Tail(parts))

\* repr(v): as str(v), but a str is quoted
RECURSIVE PyRepr(_)
PyRepr(v) ==
    CASE v.t = "null" -> "None"
      [] v.t = "bool" -> IF v.b THEN "True" ELSE "False"
      [] v.t = "num"  -> IntStr(v.n)
      [] v.t = "str"  -> "'" \o v.s \o "'"
      [] v.t = "list" ->
            "[" \o Join(", ", [i \in 1..Len(v.el) |-> PyRepr(v.el[i])]) \o "]"
      [] v.t = "dict" ->
            "{" \o Join(", ", [i \in 1..Len(v.kv) |->
                       "'" \o v.kv[i][1] \o "': " \o PyRepr(v.kv[i][2])]) \o "}"

\* str(v)
PyStr(v) == IF v.t = "str" THEN v.s ELSE PyRepr(v)

\* type(v).__name__
PyTypeName(v) ==
    CASE v.t = "null" -> "NoneType"
      [] v.t = "bool" -> "bool"
      [] v.t = "num"  -> "int"
      [] v.t = "str"  -> "str"
      [] v.t = "list" -> "list"
      [] v.t = "dict" -> "dict"

----------------------------------------------------------------------------
(* Python dicts as sequences of <<key, value>> pairs                       *)

Keys(kv) == [i \in 1..Len(kv) |-> kv[i][1]]
KeySet(kv) == {kv[i][1] : i \in 1..Len(kv)}
HasKey(kv, k) == \E i \in 1..Len(kv) : kv[i][1] = k
Lookup(kv, k) == kv[CHOOSE i \in 1..Len(kv) : kv[i][1] = k][2]

\* d[k] = v: a new key goes last, a known key keeps its place
SetItem(kv, k, v) ==
    IF HasKey(kv, k)
    THEN [i \in 1..Len(kv) |-> IF kv[i][1] = k THEN <<k, v>> ELSE kv[i]]
    ELSE Append(kv, <<k, v>>)

\* dict(items)
RECURSIVE DictOf(_)
DictOf(items) ==
    IF items = <<>> THEN <<>>
    ELSE LET n == Len(items) IN
         SetItem(DictOf(SubSeq(items, 1, n - 1)), items[n][1], items[n][2])

----------------------------------------------------------------------------
(* JSONFlattener.flatten_dict                                              *)

\* How many elements of a list of dicts are flattened (v[:3], len(v) > 3).
FlattenListLimit == 3

\* The simple-list branch keeping the list instead of joining it.
SimpleListValue_Unjoined(el) == JList(el)

\* ', '.join(str(item) for item in v)
SimpleListValue(el) ==
    JStr(Join(", ", [i \in 1..Len(el) |-> PyStr(el[i])]))

\* len(v[:3])
FlattenedPrefixLen(n) == IF n < FlattenListLimit THEN n ELSE FlattenListLimit

\* The count entry emitted from three elements on.
CountItems_FromLimit(new_key, n) ==
    IF n >= FlattenListLimit
    THEN <<<<new_key \o "_count", JNum(n)>>>>
    ELSE <<>>

\* if len(v) > 3: items.append((f"{new_key}_count", len(v)))
CountItems(new_key, n) ==
    IF n > FlattenListLimit
    THEN <<<<new_key \o "_count", JNum(n)>>>>
    ELSE <<>>

RECURSIVE flatten_dict(_, _, _)
RECURSIVE FieldItems(_, _, _, _)
RECURSIVE LoopItems(_, _, _, _)
RECURSIVE ElementItems(_, _, _, _)

\* The items the loop body appends for the field (k, v).
FieldItems(k, v, parent_key, sep) ==
    LET new_key == IF parent_key # "" THEN parent_key \o sep \o k ELSE k IN
    IF IsDict(v) THEN flatten_dict(v, new_key, sep)
    ELSE IF IsList(v) THEN
        IF Len(v.el) = 0 THEN <<<<new_key, JNull>>>>
        ELSE IF \A i \in 1..Len(v.el) : IsDict(v.el[i])
        THEN ElementItems(v.el, 1, new_key, sep)
             \o CountItems(new_key, Len(v.el))
        ELSE <<<<new_key, SimpleListValue(v.el)>>>>
    ELSE <<<<new_key, v>>>>

\* for i, item in enumerate(v[:3]): the items of elements i, i+1, ...
\* (i counts from 1 here, the key carries i - 1)
ElementItems(el, i, new_key, sep) ==
    IF i > FlattenedPrefixLen(Len(el)) THEN <<>>
    ELSE flatten_dict(el[i], new_key \o "_" \o IntStr(i - 1), sep)
         \o ElementItems(el, i + 1, new_key, sep)

\* for k, v in d.items(): the items of fields i, i+1, ...
LoopItems(kv, i, parent_key, sep) ==
    IF i > Len(kv) THEN <<>>
    ELSE FieldItems(kv[i][1], kv[i][2], parent_key, sep)
         \o LoopItems(kv, i + 1, parent_key, sep)

\* flatten_dict(d, parent_key, sep): the returned dict, as its items
flatten_dict(d, parent_key, sep) ==
    DictOf(LoopItems(d.kv, 1, parent_key, sep))

(* flatten_dict as the operation under study                               *)

\* All sequences over S of length 1..n
RECURSIVE SeqsUpTo(_, _)
SeqsUpTo(S, n) ==
    IF n = 0 THEN {}
    ELSE LET shorter == SeqsUpTo(S, n - 1) IN
         {<<x>> : x \in S}
         \cup shorter
         \cup {Append(q, x) : q \in {y \in shorter : Len(y) = n - 1}, x \in S}

FlattenKeys == {"a", "b"}

FlattenScalars == {JNull, JBool(TRUE), JNum(1), JStr("x")}

\* The dicts that occur as list elements
ElementDicts ==
    { JDict(<<>>),
      JDict(<<<<"a", JNum(1)>>>>),
      JDict(<<<<"a", JNull>>, <<"b", JStr("x")>>>>),
      JDict(<<<<"b", JDict(<<<<"a", JNum(1)>>>>)>>>>) }

\* The non-empty lists in which every element is a dict
DictLists == {JList(el) : el \in SeqsUpTo(ElementDicts, MaxListLen)}

OtherFieldValues ==
    FlattenScalars \cup
    { JList(<<>>),
      JList(<<JNum(1)>>),
      JList(<<JNum(1), JStr("x")>>),
      JList(<<JNull, JBool(TRUE)>>),
      JList(<<JDict(<<<<"a", JNum(1)>>>>), JNum(1)>>),
      JList(<<JList(<<JNum(1)>>), JDict(<<<<"a", JStr("x")>>>>)>>),
      JDict(<<>>),
      JDict(<<<<"a", JNum(1)>>, <<"b", JList(<<>>)>>>>) }

FieldValues ==
    LET plain == DictLists \cup OtherFieldValues IN
    plain \cup {JDict(<<<<"b", v>>>>) : v \in plain}

\* The records flatten_dict is called on: one field of any value, or that
\* field before or after a second, simple one.
FlattenRecords ==
    LET pairs == {p \in FlattenKeys \X FlattenKeys : p[1] # p[2]}
        simple == {JNum(1), JList(<<>>)}
    IN  {JDict(<<<<k, v>>>>) : k \in FlattenKeys, v \in FieldValues}
        \cup {JDict(<<<<p[1], v>>, <<p[2], w>>>>) :
                p \in pairs, v \in FieldValues, w \in simple}
        \cup {JDict(<<<<p[1], w>>, <<p[2], v>>>>) :
                p \in pairs, v \in FieldValues, w \in simple}

\* Records with a key that already has the form of a flattened path
PathKeyRecords ==
    { JDict(<< <<"a_b", JNum(1)>>, <<"a", JDict(<<<<"b", JStr("x")>>>>)>> >>),
      JDict(<< <<"a", JDict(<<<<"b", JStr("x")>>>>)>>, <<"a_b", JNum(1)>> >>),
      JDict(<< <<"a", JList(<<JDict(<<<<"b", JNum(1)>>>>)>>)>>,
               <<"a_0_b", JStr("x")>> >>),
      JDict(<< <<"a_count", JStr("x")>>,
               <<"a", JList(<<JDict(<<>>), JDict(<<>>),
                              JDict(<<>>), JDict(<<>>)>>)>> >>) }

ParentKeys == {"", "p"}
Separators == {"_", "."}

FlattenInit ==
    /\ pc = "call"
    /\ call \in {[fn |-> "flatten_dict", d |-> r] :
                    r \in FlattenRecords \cup PathKeyRecords}
    /\ ret = Unused
    /\ error = NoError
    /\ content = Unused
    /\ records = Unused
    /\ format_desc = Unused
    /\ attempts = Unused

FlattenDict ==
    /\ pc = "call"
    /\ call.fn = "flatten_dict"
    /\ \E parent_key \in ParentKeys, sep \in Separators :
         /\ call' = [fn |-> "flatten_dict", d |-> call.d,
                     parent_key |-> parent_key, sep |-> sep]
         /\ ret' = flatten_dict(call.d, parent_key, sep)
    /\ pc' = "returned"
    /\ UNCHANGED <<content, records, format_desc, attempts, error>>

FlattenNext == FlattenDict

SpecFlatten == FlattenInit /\ [][FlattenNext]_vars

(* Claims about flatten_dict                                               *)

Flattened == pc = "returned" /\ call.fn = "flatten_dict"

\* C4: every value of the mapping flatten_dict returns is a scalar or null,
\* never a dict or a list.
C4_FlatValuesScalar ==
    Flattened =>
        \A i \in 1..Len(ret) : ret[i][2].t \in {"null", "bool", "num", "str"}

\* C4 witness: a record with a list of four dicts nested in a dict was
\* flattened, down to a leaf three levels deep and the count entry.
C4_Witness ==
    /\ Flattened
    /\ \E i \in 1..Len(ret) : ret[i] = <<"a_b_2_b_a", JNum(1)>>
    /\ \E i \in 1..Len(ret) : ret[i] = <<"a_b_count", JNum(4)>>

\* The record is one field whose value is a non-empty list of dicts.
OneDictListField(d) ==
    /\ Len(d.kv) = 1
    /\ IsList(d.kv[1][2])
    /\ Len(d.kv[1][2].el) > 0
    /\ \A i \in 1..Len(d.kv[1][2].el) : IsDict(d.kv[1][2].el[i])

\* The key prefix of the field of a one-field record.
FieldKey ==
    IF call.parent_key = "" THEN call.d.kv[1][1]
    ELSE call.parent_key \o call.sep \o call.d.kv[1][1]

\* The keys of element i (from 0) of the field, flattened under its index.
ElementKeys(i) ==
    KeySet(flatten_dict(call.d.kv[1][2].el[i + 1],
                        FieldKey \o "_" \o IntStr(i), call.sep))

\* C5: for a field that is a non-empty list of dicts: with at most 3
\* elements the output has no '<field>_count' key and holds the flattened
\* fields of every element under '<field>_<index>'; with more than 3 it has
\* the key '<field>_count' once, with the length of the list as its value,
\* and besides it only the fields of the elements 0, 1 and 2: no key of an
\* element at index 3 or later.
C5_DictListCap ==
    (Flattened /\ OneDictListField(call.d)) =>
        LET n == Len(call.d.kv[1][2].el)
            countKey == FieldKey \o "_count"
            counts == {i \in 1..Len(ret) : ret[i][1] = countKey}
        IN  /\ n <= 3 =>
                /\ counts = {}
                /\ KeySet(ret) = UNION {ElementKeys(i) : i \in 0..(n - 1)}
            /\ n > 3 =>
                /\ Cardinality(counts) = 1
                /\ \A i \in counts : ret[i][2] = JNum(n)
                /\ KeySet(ret) \ {countKey}
                      = UNION {ElementKeys(i) : i \in 0..2}
                /\ \A i \in 3..(n - 1) : ElementKeys(i) \cap KeySet(ret) = {}

\* C5 witness: a list of four dicts whose last element has fields was
\* flattened: the count is 4 and the fourth element left no key.
C5_Witness ==
    /\ Flattened
    /\ OneDictListField(call.d)
    /\ Len(call.d.kv[1][2].el) = 4
    /\ ElementKeys(3) # {}
    /\ ElementKeys(2) # {}
    /\ HasKey(ret, FieldKey \o "_count")

----------------------------------------------------------------------------
(* The schema catalog and the field extractor of JSONFlattener             *)

\* What a call yields: Ok(v) when it returns v, Fail(e) when it raises e.
Ok(v) == [ok |-> TRUE, val |-> v]
Fail(e) == [ok |-> FALSE, error |-> e]

\* x.<name>(...) on an x that is no dict
NoAttribute(x, name) ==
    Raise("AttributeError",
          "'" \o PyTypeName(x) \o "' object has no attribute '" \o name \o "'")

\* x.get(...) on an x that is no dict
NoGetAttribute(x) == NoAttribute(x, "get")

\* d.get(k, default) on a dict d
Get(d, k, default) == IF HasKey(d.kv, k) THEN Lookup(d.kv, k) ELSE default

EmptyDict == JDict(<<>>)
EmptyStr == JStr("")

COMMON_FIELDS ==
    [ Header |-> <<"AssetClass", "InstrumentType", "UseCase", "Level">>,
      Identifier |-> <<"UPI", "Status", "StatusReason", "LastUpdateDateTime">>,
      Derived_Common |-> <<"ClassificationType", "ShortName", "UnderlierName",
                           "UnderlyingAssetType", "CFIDeliveryType">>,
      Attributes_Common |-> <<"ReferenceRate", "BaseProduct", "SubProduct",
                              "AdditionalSubProduct", "DeliveryType">> ]

INSTRUMENT_SPECIFIC_FIELDS ==
    [ Swap |->
        [ Derived |-> <<>>,
          Attributes |-> <<"OtherReferenceRate", "OtherBaseProduct",
                           "OtherSubProduct", "OtherAdditionalSubProduct",
                           "ReturnorPayoutTrigger">> ],
      Forward |->
        [ Derived |-> <<>>,
          Attributes |-> <<"ReturnorPayoutTrigger">> ],
      Option |->
        [ Derived |-> <<"CFIOptionStyleandType">>,
          Attributes |-> <<"OptionType", "OptionExerciseStyle",
                           "ValuationMethodorTrigger">> ],
      Future |->
        [ Derived |-> <<>>,
          Attributes |-> <<"ExpiryDate", "SettlementMethod">> ],
      Default |->
        [ Derived |-> <<"CFIOptionStyleandType">>,
          Attributes |-> <<"OtherReferenceRate", "OtherBaseProduct",
                           "OtherSubProduct", "OtherAdditionalSubProduct",
                           "ReturnorPayoutTrigger", "OptionType",
                           "OptionExerciseStyle",
                           "ValuationMethodorTrigger">> ] ]

\* get_instrument_type mapping a type the catalog does not know to 'Default'.
get_instrument_type_KnownOnly(record) ==
    IF ~IsDict(record) THEN Fail(NoGetAttribute(record))
    ELSE LET header == Get(record, "Header", EmptyDict) IN
         IF ~IsDict(header) THEN Fail(NoGetAttribute(header))
         ELSE LET it == Get(header, "InstrumentType", JStr("Default")) IN
              IF it.t = "str" /\ it.s \in DOMAIN INSTRUMENT_SPECIFIC_FIELDS
              THEN Ok(it)
              ELSE Ok(JStr("Default"))

\* record.get('Header', {}).get('InstrumentType', 'Default')
get_instrument_type(record) ==
    IF ~IsDict(record) THEN Fail(NoGetAttribute(record))
    ELSE LET header == Get(record, "Header", EmptyDict) IN
         IF ~IsDict(header) THEN Fail(NoGetAttribute(header))
         ELSE Ok(Get(header, "InstrumentType", JStr("Default")))

\* A value that cannot be a dict key
Unhashable(v) == v.t \in {"list", "dict"}
UnhashableType(v) ==
    Raise("TypeError", "unhashable type: '" \o PyTypeName(v) \o "'")

\* INSTRUMENT_SPECIFIC_FIELDS.get(instrument_type,
\*                                INSTRUMENT_SPECIFIC_FIELDS['Default'])
\* for a hashable instrument_type
SpecificConfig(instrument_type) ==
    IF /\ instrument_type.t = "str"
       /\ instrument_type.s \in DOMAIN INSTRUMENT_SPECIFIC_FIELDS
    THEN INSTRUMENT_SPECIFIC_FIELDS[instrument_type.s]
    ELSE INSTRUMENT_SPECIFIC_FIELDS["Default"]

\* SectionItems leaving out the fields the section does not have.
SectionItems_OmitMissing(section, fields) ==
    LET present == SelectSeq(fields, LAMBDA f : HasKey(section.kv, f)) IN
    [i \in 1..Len(present) |-> <<present[i], Lookup(section.kv, present[i])>>]

\* for field in fields: result[field] = section.get(field, '')
SectionItems(section, fields) ==
    [i \in 1..Len(fields) |-> <<fields[i], Get(section, fields[i], EmptyStr)>>]

\* The first of the sections (in the order they are read) that is no dict
\* while fields are read from it; <<>> when there is none.
FirstBadSection(sections) ==
    SelectSeq(sections, LAMBDA x : ~IsDict(x))

\* extract_key_fields choosing the record's own configuration even when
\* include_all_fields is set.
extract_key_fields_IgnoreAll(record, include_all_fields) ==
    IF ~IsDict(record) THEN Fail(NoGetAttribute(record))
    ELSE
    LET header == Get(record, "Header", EmptyDict)
        identifier == Get(record, "Identifier", EmptyDict)
        derived == Get(record, "Derived", EmptyDict)
        attributes == Get(record, "Attributes", EmptyDict)
        bad == FirstBadSection(<<header, identifier, derived, attributes>>)
    IN
    IF bad # <<>> THEN Fail(NoGetAttribute(bad[1]))
    ELSE
    LET instrument_type == get_instrument_type(record).val IN
    IF Unhashable(instrument_type) THEN Fail(UnhashableType(instrument_type))
    ELSE
    LET specific_config == SpecificConfig(instrument_type)
    IN  Ok(DictOf(
            <<<<"TemplateVersion", Get(record, "TemplateVersion", EmptyStr)>>>>
            \o SectionItems(header, COMMON_FIELDS.Header)
            \o SectionItems(identifier, COMMON_FIELDS.Identifier)
            \o SectionItems(derived, COMMON_FIELDS.Derived_Common)
            \o SectionItems(attributes, COMMON_FIELDS.Attributes_Common)
            \o SectionItems(derived, specific_config.Derived)
            \o SectionItems(attributes, specific_config.Attributes)))

extract_key_fields(record, include_all_fields) ==
    IF ~IsDict(record) THEN Fail(NoGetAttribute(record))
    ELSE
    LET header == Get(record, "Header", EmptyDict)
        identifier == Get(record, "Identifier", EmptyDict)
        derived == Get(record, "Derived", EmptyDict)
        attributes == Get(record, "Attributes", EmptyDict)
        bad == FirstBadSection(<<header, identifier, derived, attributes>>)
    IN
    IF bad # <<>> THEN Fail(NoGetAttribute(bad[1]))
    ELSE
    LET instrument_type == get_instrument_type(record).val IN
    IF Unhashable(instrument_type) THEN Fail(UnhashableType(instrument_type))
    ELSE
    LET specific_config ==
            IF include_all_fields THEN INSTRUMENT_SPECIFIC_FIELDS["Default"]
            ELSE SpecificConfig(instrument_type)
    IN  Ok(DictOf(
            <<<<"TemplateVersion", Get(record, "TemplateVersion", EmptyStr)>>>>
            \o SectionItems(header, COMMON_FIELDS.Header)
            \o SectionItems(identifier, COMMON_FIELDS.Identifier)
            \o SectionItems(derived, COMMON_FIELDS.Derived_Common)
            \o SectionItems(attributes, COMMON_FIELDS.Attributes_Common)
            \o SectionItems(derived, specific_config.Derived)
            \o SectionItems(attributes, specific_config.Attributes)))

extract_key_fields_for_instrument(record, instrument_type) ==
    IF ~IsDict(record) THEN Fail(NoGetAttribute(record))
    ELSE
    LET header == Get(record, "Header", EmptyDict)
        identifier == Get(record, "Identifier", EmptyDict)
        derived == Get(record, "Derived", EmptyDict)
        attributes == Get(record, "Attributes", EmptyDict)
        bad == FirstBadSection(<<header, identifier, derived>>)
    IN
    IF bad # <<>> THEN Fail(NoGetAttribute(bad[1]))
    ELSE IF Unhashable(instrument_type)
    THEN Fail(UnhashableType(instrument_type))
    ELSE IF ~IsDict(attributes) THEN Fail(NoGetAttribute(attributes))
    ELSE
    LET specific_config == SpecificConfig(instrument_type) IN
    Ok(DictOf(
        <<<<"TemplateVersion", Get(record, "TemplateVersion", EmptyStr)>>>>
        \o SectionItems(header, COMMON_FIELDS.Header)
        \o SectionItems(identifier, COMMON_FIELDS.Identifier)
        \o SectionItems(derived, COMMON_FIELDS.Derived_Common)
        \o SectionItems(derived, specific_config.Derived)
        \o SectionItems(attributes, COMMON_FIELDS.Attributes_Common)
        \o SectionItems(attributes, specific_config.Attributes)))

(* The field extractor as the operation under study: both projections of  *)
(* two records                                                             *)

\* A record with the given top-level fields, in this order; a field whose
\* value is Absent is left out.
Absent == [t |-> "absent"]
MkRecord(fields) == JDict(SelectSeq(fields, LAMBDA f : f[2] # Absent))

HeaderOfType(v) == JDict(<<<<"InstrumentType", v>>>>)

\* The Header values of the records: none, empty, the four known types, an
\* unknown type, a null type, a Header with more fields, and two shapes
\* reading which raises: a null Header and a type that is a list.
SchemaHeaders ==
    { Absent,
      EmptyDict,
      HeaderOfType(JStr("Swap")),
      HeaderOfType(JStr("Forward")),
      HeaderOfType(JStr("Option")),
      HeaderOfType(JStr("Future")),
      HeaderOfType(JStr("Exotic")),
      HeaderOfType(JNull),
      JDict(<<<<"AssetClass", JStr("Commodities")>>,
              <<"InstrumentType", JStr("Option")>>>>),
      JNull,
      HeaderOfType(JList(<<JStr("Swap")>>)) }

\* The rest of a record: nothing; every section with some fields; or an
\* Attributes that is a list.
SchemaBodies ==
    { <<Absent, Absent, Absent, Absent>>,
      << JStr("1"),
         JDict(<<<<"UPI", JStr("U1")>>>>),
         JDict(<<<<"ShortName", JStr("n")>>,
                 <<"CFIOptionStyleandType", JStr("E")>>>>),
         JDict(<<<<"ExpiryDate", JStr("2030-01-01")>>,
                 <<"OptionType", JStr("Call")>>,
                 <<"ReferenceRate", JNull>>>>) >>,
      <<Absent, Absent, Absent, JList(<<>>)>> }

SchemaRecords ==
    { MkRecord(<<<<"TemplateVersion", b[1]>>, <<"Header", h>>,
                 <<"Identifier", b[2]>>, <<"Derived", b[3]>>,
                 <<"Attributes", b[4]>>>>) :
        h \in SchemaHeaders, b \in SchemaBodies }

\* The instrument types extract_key_fields_for_instrument is called with
InstrumentTypeArgs ==
    {JStr("Swap"), JStr("Forward"), JStr("Option"), JStr("Future"),
     JStr("Exotic")}

Pending == [done |-> FALSE]

ExtractInit ==
    /\ pc = "project"
    /\ call \in {[fn |-> "extract_key_fields", records |-> <<r1, r2>>] :
                    r1 \in SchemaRecords, r2 \in SchemaRecords}
    /\ ret = [fields |-> Pending, typed |-> Pending]
    /\ error = NoError
    /\ content = Unused
    /\ records = Unused
    /\ format_desc = Unused
    /\ attempts = Unused

\* extract_key_fields(r, include_all_fields) for each of the records
ExtractKeyFields ==
    /\ pc = "project"
    /\ ~ret.fields.done
    /\ \E include_all_fields \in BOOLEAN :
         ret' = [ret EXCEPT !.fields =
                    [done |-> TRUE,
                     include_all_fields |-> include_all_fields,
                     rows |-> [i \in 1..Len(call.records) |->
                                 extract_key_fields(call.records[i],
                                                    include_all_fields)]]]
    /\ UNCHANGED <<pc, call, content, records, format_desc, attempts, error>>

\* extract_key_fields_for_instrument(r, instrument_type) for each of them
ExtractKeyFieldsForInstrument ==
    /\ pc = "project"
    /\ ~ret.typed.done
    /\ \E instrument_type \in InstrumentTypeArgs :
         ret' = [ret EXCEPT !.typed =
                    [done |-> TRUE,
                     instrument_type |-> instrument_type,
                     rows |-> [i \in 1..Len(call.records) |->
                                 extract_key_fields_for_instrument(
                                     call.records[i], instrument_type)]]]
    /\ UNCHANGED <<pc, call, content, records, format_desc, attempts, error>>

ExtractNext == ExtractKeyFields \/ ExtractKeyFieldsForInstrument

SpecExtract == ExtractInit /\ [][ExtractNext]_vars

(* Claims about the field extractor                                        *)

Range(q) == {q[i] : i \in 1..Len(q)}

\* The record's section X, when the record has one.
HasSection(r, X) == HasKey(r.kv, X)
Section(r, X) == Lookup(r.kv, X)

\* The record is a mapping whose Header, Identifier, Derived and Attributes
\* are each absent or a mapping, with a Header.InstrumentType that is absent
\* or a scalar.
WellShaped(r) ==
    /\ IsDict(r)
    /\ \A X \in {"Header", "Identifier", "Derived", "Attributes"} :
          HasSection(r, X) => IsDict(Section(r, X))
    /\ (HasSection(r, "Header") /\ HasKey(Section(r, "Header").kv,
                                          "InstrumentType"))
          => Lookup(Section(r, "Header").kv, "InstrumentType").t
                \in {"null", "bool", "num", "str"}

\* The columns of the "all fields" projection, as the source lists them.
AllFieldsColumns ==
    << "TemplateVersion",
       "AssetClass", "InstrumentType", "UseCase", "Level",
       "UPI", "Status", "StatusReason", "LastUpdateDateTime",
       "ClassificationType", "ShortName", "UnderlierName",
       "UnderlyingAssetType", "CFIDeliveryType",
       "ReferenceRate", "BaseProduct", "SubProduct", "AdditionalSubProduct",
       "DeliveryType",
       "CFIOptionStyleandType",
       "OtherReferenceRate", "OtherBaseProduct", "OtherSubProduct",
       "OtherAdditionalSubProduct", "ReturnorPayoutTrigger",
       "OptionType", "OptionExerciseStyle", "ValuationMethodorTrigger" >>

FieldsDone == pc = "project" /\ ret.fields.done
TypedDone == pc = "project" /\ ret.typed.done

\* C7: extract_key_fields(r, include_all_fields=True) returns the same
\* ordered sequence of column names for every record, whatever its
\* instrument type (known, unknown or absent) and whichever fields it lacks.
C7_AllFieldsHeaderStable ==
    (FieldsDone /\ ret.fields.include_all_fields) =>
        \A i \in 1..Len(call.records) :
            /\ WellShaped(call.records[i]) => ret.fields.rows[i].ok
            /\ ret.fields.rows[i].ok =>
                  Keys(ret.fields.rows[i].val) = AllFieldsColumns

\* C7 witness: the all-fields rows of a Future record with fields and of a
\* record with no Header and no fields at all were both returned.
C7_Witness ==
    /\ FieldsDone
    /\ ret.fields.include_all_fields
    /\ ret.fields.rows[1].ok
    /\ ret.fields.rows[2].ok
    /\ call.records[1] = JDict(<<>>)
    /\ HasSection(call.records[2], "Attributes")
    /\ HasSection(call.records[2], "Header")
    /\ Get(Section(call.records[2], "Header"), "InstrumentType", JNull)
          = JStr("Future")

\* The catalog entry the record's own type selects.
OwnConfigName(r) ==
    LET it == IF HasSection(r, "Header")
              THEN Get(Section(r, "Header"), "InstrumentType", JStr("Default"))
              ELSE JStr("Default")
    IN  IF it.t = "str" /\ it.s \in {"Swap", "Forward", "Option", "Future"}
        THEN it.s
        ELSE "Default"

\* The section a column is read from.
ColumnSection(c) ==
    CASE c \in Range(COMMON_FIELDS.Header) -> "Header"
      [] c \in Range(COMMON_FIELDS.Identifier) -> "Identifier"
      [] c \in Range(COMMON_FIELDS.Derived_Common)
              \cup {"CFIOptionStyleandType"} -> "Derived"
      [] OTHER -> "Attributes"

\* The record has no value for the column.
MissingField(r, c) ==
    IF c = "TemplateVersion" THEN ~HasKey(r.kv, c)
    ELSE \/ ~HasSection(r, ColumnSection(c))
         \/ ~HasKey(Section(r, ColumnSection(c)).kv, c)

\* Every column of the row that the record has no value for holds ''.
MissingAreEmpty(r, row) ==
    \A j \in 1..Len(row) : MissingField(r, row[j][1]) => row[j][2] = EmptyStr

\* C8 as claimed: within one include_all_fields mode, true or false, any
\* two records give rows with the same column set, a missing field being
\* present with the empty string.
C8_Claimed_SameColumnsPerMode ==
    (FieldsDone /\ ret.fields.rows[1].ok /\ ret.fields.rows[2].ok) =>
        /\ KeySet(ret.fields.rows[1].val) = KeySet(ret.fields.rows[2].val)
        /\ \A i \in 1..2 :
              MissingAreEmpty(call.records[i], ret.fields.rows[i].val)

\* C8, amended: with include_all_fields true any two records give rows with
\* the same column set; with include_all_fields false any two records whose
\* instrument types select the same catalog entry (the same known type, or
\* both the Default entry) do; in both modes a column whose field the record
\* lacks is present with the empty string.
C8_SameColumnsPerConfig ==
    (FieldsDone /\ ret.fields.rows[1].ok /\ ret.fields.rows[2].ok) =>
        /\ ( \/ ret.fields.include_all_fields
             \/ OwnConfigName(call.records[1]) = OwnConfigName(call.records[2]) )
              => KeySet(ret.fields.rows[1].val) = KeySet(ret.fields.rows[2].val)
        /\ \A i \in 1..2 :
              MissingAreEmpty(call.records[i], ret.fields.rows[i].val)

\* C8 witness: with include_all_fields false, a bare Option record and an
\* Option record with fields gave two rows.
C8_Witness ==
    /\ FieldsDone
    /\ ~ret.fields.include_all_fields
    /\ ret.fields.rows[1].ok
    /\ ret.fields.rows[2].ok
    /\ OwnConfigName(call.records[1]) = "Option"
    /\ OwnConfigName(call.records[2]) = "Option"
    /\ ~HasSection(call.records[1], "Attributes")
    /\ HasSection(call.records[2], "Attributes")

\* C9: the Default entry of the catalog holds every Derived and every
\* Attributes field of each known type, hence the all-fields row of a record
\* has every column of its row for any instrument type.
C9_DefaultIsSuperset ==
    (FieldsDone /\ ret.fields.include_all_fields /\ TypedDone) =>
        LET t == ret.typed.instrument_type.s IN
        /\ t \in {"Swap", "Forward", "Option", "Future"} =>
              /\ Range(INSTRUMENT_SPECIFIC_FIELDS[t].Derived)
                    \subseteq Range(INSTRUMENT_SPECIFIC_FIELDS.Default.Derived)
              /\ Range(INSTRUMENT_SPECIFIC_FIELDS[t].Attributes)
                    \subseteq
                    Range(INSTRUMENT_SPECIFIC_FIELDS.Default.Attributes)
        /\ \A i \in 1..Len(call.records) :
              (ret.fields.rows[i].ok /\ ret.typed.rows[i].ok) =>
                  KeySet(ret.typed.rows[i].val)
                      \subseteq KeySet(ret.fields.rows[i].val)

----------------------------------------------------------------------------
(* ExcelGenerator.group_by_instrument_type                                 *)

\* The loop body replacing a group by its latest record.
AddToGroup_Overwrite(grouped, instrument_type, record) ==
    SetItem(grouped, instrument_type, <<record>>)

\* a == b for two hashable values: True and False are the integers 1 and 0
PyEq(a, b) ==
    LET AsInt(x) == IF x.t = "bool" THEN (IF x.b THEN 1 ELSE 0) ELSE x.n IN
    IF a.t \in {"bool", "num"} /\ b.t \in {"bool", "num"}
    THEN AsInt(a) = AsInt(b)
    ELSE a = b

\* The key of `grouped` a lookup of instrument_type finds: the equal key
\* that is already there, instrument_type itself otherwise
GroupKey(grouped, instrument_type) ==
    LET same == SelectSeq(grouped, LAMBDA g : PyEq(g[1], instrument_type))
    IN  IF same # <<>> THEN same[1][1] ELSE instrument_type

\* if instrument_type not in grouped: grouped[instrument_type] = []
\* grouped[instrument_type].append(record)
AddToGroup(grouped, instrument_type, record) ==
    LET key == GroupKey(grouped, instrument_type) IN
    IF HasKey(grouped, key)
    THEN SetItem(grouped, key, Append(Lookup(grouped, key), record))
    ELSE Append(grouped, <<key, <<record>>>>)

\* for record in records, from record i on, with `grouped` so far
RECURSIVE GroupLoop(_, _, _)
GroupLoop(recs, i, grouped) ==
    IF i > Len(recs) THEN Ok(grouped)
    ELSE LET it == get_instrument_type(recs[i]) IN
         IF ~it.ok THEN it
         ELSE IF Unhashable(it.val) THEN Fail(UnhashableType(it.val))
         ELSE GroupLoop(recs, i + 1, AddToGroup(grouped, it.val, recs[i]))

\* The returned dict, as <<instrument type, records>> pairs in key order
group_by_instrument_type(recs) == GroupLoop(recs, 1, <<>>)

(* group_by_instrument_type as the operation under study                   *)

WithUPI(h, upi) ==
    MkRecord(<<<<"Header", h>>,
               <<"Identifier", JDict(<<<<"UPI", JStr(upi)>>>>)>>>>)

\* Records with no Header, a known, an unknown and a null type, a second
\* Swap record, and one whose Header is null.
GroupRecords ==
    { WithUPI(Absent, "U1"),
      WithUPI(HeaderOfType(JStr("Swap")), "U1"),
      WithUPI(HeaderOfType(JStr("Swap")), "U2"),
      WithUPI(HeaderOfType(JStr("Option")), "U1"),
      WithUPI(HeaderOfType(JStr("Exotic")), "U1"),
      WithUPI(HeaderOfType(JNull), "U1"),
      WithUPI(JNull, "U1") }

GroupInit ==
    /\ pc = "call"
    /\ call \in {[fn |-> "group_by_instrument_type", records |-> recs] :
                    recs \in SeqsUpTo(GroupRecords, MaxRecords)}
    /\ ret = Unused
    /\ error = NoError
    /\ content = Unused
    /\ records = Unused
    /\ format_desc = Unused
    /\ attempts = Unused

GroupByInstrumentType ==
    /\ pc = "call"
    /\ call.fn = "group_by_instrument_type"
    /\ LET g == group_by_instrument_type(call.records) IN
       /\ pc' = IF g.ok THEN "returned" ELSE "raised"
       /\ ret' = IF g.ok THEN g.val ELSE ret
       /\ error' = IF g.ok THEN error ELSE g.error
    /\ UNCHANGED <<call, content, records, format_desc, attempts>>

GroupNext == GroupByInstrumentType

SpecGroup == GroupInit /\ [][GroupNext]_vars

(* Claims about grouping and the instrument type                           *)

Grouped == pc = "returned" /\ call.fn = "group_by_instrument_type"

RECURSIVE TotalSize(_)
TotalSize(groups) ==
    IF groups = <<>> THEN 0 ELSE Len(groups[1][2]) + TotalSize(Tail(groups))

\* The position of the first record of the given type.
FirstOfType(recs, it) ==
    CHOOSE p \in 1..Len(recs) :
        /\ get_instrument_type(recs[p]).val = it
        /\ \A q \in 1..(p - 1) : get_instrument_type(recs[q]).val # it

\* C6: group_by_instrument_type partitions the records: each record is in
\* exactly one group, the one keyed by its own instrument type; the group
\* sizes add up to the number of records; the groups are in the order in
\* which their types first occur; and the records of a group are in their
\* original order.
C6_GroupsPartition ==
    /\ (call.fn = "group_by_instrument_type"
        /\ \A p \in 1..Len(call.records) : WellShaped(call.records[p]))
          => pc # "raised"
    /\ Grouped =>
        /\ \A g, h \in 1..Len(ret) : g # h => ret[g][1] # ret[h][1]
        /\ \A p \in 1..Len(call.records) :
              Cardinality({g \in 1..Len(ret) :
                  ret[g][1] = get_instrument_type(call.records[p]).val}) = 1
        /\ \A g \in 1..Len(ret) :
              ret[g][2] = SelectSeq(call.records,
                  LAMBDA r : get_instrument_type(r).val = ret[g][1])
        /\ \A g \in 1..Len(ret) : ret[g][2] # <<>>
        /\ TotalSize(ret) = Len(call.records)
        /\ \A g, h \in 1..Len(ret) :
              g < h => FirstOfType(call.records, ret[g][1])
                          < FirstOfType(call.records, ret[h][1])

\* C6 witness: three records, the first and the last of one type with
\* different identifiers, came out as two groups.
C6_Witness ==
    /\ Grouped
    /\ Len(call.records) = 3
    /\ call.records[1] # call.records[3]
    /\ Len(ret) = 2
    /\ ret[1][2] = <<call.records[1], call.records[3]>>
    /\ ret[2][2] = <<call.records[2]>>

\* Header.InstrumentType as the record holds it; Absent when it has none.
RawInstrumentType(r) ==
    IF HasSection(r, "Header")
       /\ HasKey(Section(r, "Header").kv, "InstrumentType")
    THEN Lookup(Section(r, "Header").kv, "InstrumentType")
    ELSE Absent

KnownTypes == {JStr("Swap"), JStr("Forward"), JStr("Option"), JStr("Future")}

\* The key of the group that holds record p.
GroupKeyOf(p) ==
    ret[CHOOSE g \in 1..Len(ret) : call.records[p] \in Range(ret[g][2])][1]

\* C10 as claimed: the instrument type of a record, the key of its group, is
\* "Default" when Header.InstrumentType is absent and when its value is not
\* a type the catalog knows; it is Header.InstrumentType only for a known
\* type.
C10_Claimed_UnknownIsDefault ==
    Grouped =>
        \A p \in 1..Len(call.records) :
            GroupKeyOf(p) =
                IF RawInstrumentType(call.records[p]) \in KnownTypes
                THEN RawInstrumentType(call.records[p])
                ELSE JStr("Default")

\* C10, amended: the instrument type of a record, the key of its group, is
\* "Default" when the record has no Header or its Header has no
\* InstrumentType; otherwise it is the value of Header.InstrumentType as it
\* stands, for a known type and for any other value alike.
C10_TypeIsRawOrDefault ==
    Grouped =>
        \A p \in 1..Len(call.records) :
            GroupKeyOf(p) =
                IF RawInstrumentType(call.records[p]) = Absent
                THEN JStr("Default")
                ELSE RawInstrumentType(call.records[p])

\* C10 witness: a record of an unknown type and a record with no Header
\* were grouped, under the unknown type's name and under "Default".
C10_Witness ==
    /\ Grouped
    /\ \E p, q \in 1..Len(call.records) :
          /\ RawInstrumentType(call.records[p]) = JStr("Exotic")
          /\ GroupKeyOf(p) = JStr("Exotic")
          /\ ~HasSection(call.records[q], "Header")
          /\ GroupKeyOf(q) = JStr("Default")

----------------------------------------------------------------------------
(* ExcelGenerator._extract_cfi_data and ExcelGenerator.create_excel.  The  *)
(* workbook writer is outside the program: a workbook is the sequence of   *)
(* the sheets handed to it, [name |-> sheet name, rows |-> the rows].      *)

\* The results of a sequence of calls made one after the other: the values
\* when all return, the first failure otherwise.
FirstFailure(results) ==
    LET bad == SelectSeq(results, LAMBDA x : ~x.ok) IN
    IF bad # <<>> THEN bad[1]
    ELSE Ok([i \in 1..Len(results) |-> results[i].val])

RECURSIVE Flatten1(_)
Flatten1(seqs) == IF seqs = <<>> THEN <<>> ELSE seqs[1] \o Flatten1(Tail(seqs))

\* s[:n]
Take(q, n) == SubSeq(q, 1, IF Len(q) < n THEN Len(q) ELSE n)

\* The characters of the strings that are iterated or sliced.
StrChars(s) ==
    CASE s = "" -> <<>>
      [] s = "Default" -> <<"D", "e", "f", "a", "u", "l", "t">>
      [] s = "Swap" -> <<"S", "w", "a", "p">>
      [] s = "Forward" -> <<"F", "o", "r", "w", "a", "r", "d">>
      [] s = "Option" -> <<"O", "p", "t", "i", "o", "n">>
      [] s = "Future" -> <<"F", "u", "t", "u", "r", "e">>
      [] s = "Exotic" -> <<"E", "x", "o", "t", "i", "c">>
      [] s = "x" -> <<"x">>
      [] s = "Swap!" -> <<"S", "w", "a", "p", "!">>
      [] s = "Summary" -> <<"S", "u", "m", "m", "a", "r", "y">>
      [] s = "CFI Details" ->
            <<"C", "F", "I", " ", "D", "e", "t", "a", "i", "l", "s">>

\* The characters c with c.isalnum(), among those of the strings above
AlnumChars ==
    { "a", "b", "c", "d", "e", "f", "g", "h", "i", "j", "k", "l", "m",
      "n", "o", "p", "q", "r", "s", "t", "u", "v", "w", "x", "y", "z",
      "A", "B", "C", "D", "E", "F", "G", "H", "I", "J", "K", "L", "M",
      "N", "O", "P", "Q", "R", "S", "T", "U", "V", "W", "X", "Y", "Z",
      "0", "1", "2", "3", "4", "5", "6", "7", "8", "9" }

SheetNameRawLimit == 28
SheetNameLimit == 31

\* sheet_name = f"{instrument_type[:28]}"
\* ''.join(c for c in sheet_name if c.isalnum() or c in ' _-')[:31]
SheetName(s) ==
    LET raw == Take(StrChars(s), SheetNameRawLimit)
        kept == SelectSeq(raw,
                    LAMBDA c : c \in AlnumChars \/ c \in {" ", "_", "-"})
    IN  Join("", Take(kept, SheetNameLimit))

\* x[:28] on an x that is no str
NotSubscriptable(x) ==
    Raise("TypeError", "'" \o PyTypeName(x) \o "' object is not subscriptable")

\* for ... in x on an x that cannot be iterated
NotIterable(x) ==
    Raise("TypeError", "'" \o PyTypeName(x) \o "' object is not iterable")

\* The elements a for loop over x visits: those of a list, the keys of a
\* dict, the characters of a str.
IterElems(x) ==
    CASE x.t = "list" -> Ok(x.el)
      [] x.t = "dict" -> Ok([i \in 1..Len(x.kv) |-> JStr(x.kv[i][1])])
      [] x.t = "str" -> Ok([i \in 1..Len(x.s) |-> JStr(StrChars(x.s)[i])])
      [] OTHER -> Fail(NotIterable(x))

\* AttrItems numbering the attributes from 0.
AttrItems_FromZero(attr, j) ==
    << <<"Attr" \o IntStr(j - 1) \o "_Name", Get(attr, "Name", EmptyStr)>>,
       <<"Attr" \o IntStr(j - 1) \o "_Code", Get(attr, "Code", EmptyStr)>>,
       <<"Attr" \o IntStr(j - 1) \o "_Value", Get(attr, "Value", EmptyStr)>> >>

\* The three columns of attribute j (from 1) of a CFI entry
AttrItems(attr, j) ==
    << <<"Attr" \o IntStr(j) \o "_Name", Get(attr, "Name", EmptyStr)>>,
       <<"Attr" \o IntStr(j) \o "_Code", Get(attr, "Code", EmptyStr)>>,
       <<"Attr" \o IntStr(j) \o "_Value", Get(attr, "Value", EmptyStr)>> >>

\* The body of the loop over cfi_list: the row of one CFI entry
CfiRow(cfi, upi, instrument_type) ==
    IF ~IsDict(cfi) THEN Fail(NoGetAttribute(cfi))
    ELSE
    LET category == Get(cfi, "Category", EmptyDict)
        group == Get(cfi, "Group", EmptyDict)
        attrs == IterElems(Get(cfi, "Attributes", JList(<<>>)))
    IN
    IF ~IsDict(category) THEN Fail(NoGetAttribute(category))
    ELSE IF ~IsDict(group) THEN Fail(NoGetAttribute(group))
    ELSE IF ~attrs.ok THEN attrs
    ELSE
    LET badAttrs == SelectSeq(attrs.val, LAMBDA a : ~IsDict(a)) IN
    IF badAttrs # <<>> THEN Fail(NoGetAttribute(badAttrs[1]))
    ELSE Ok(DictOf(
        << <<"UPI", upi>>,
           <<"InstrumentType", instrument_type>>,
           <<"CFI_Version", Get(cfi, "Version", EmptyStr)>>,
           <<"CFI_VersionStatus", Get(cfi, "VersionStatus", EmptyStr)>>,
           <<"CFI_Value", Get(cfi, "Value", EmptyStr)>>,
           <<"CFI_Category_Code", Get(category, "Code", EmptyStr)>>,
           <<"CFI_Category_Value", Get(category, "Value", EmptyStr)>>,
           <<"CFI_Group_Code", Get(group, "Code", EmptyStr)>>,
           <<"CFI_Group_Value", Get(group, "Value", EmptyStr)>> >>
        \o Flatten1([j \in 1..Len(attrs.val) |-> AttrItems(attrs.val[j], j)])))

\* The body of the loop over the records: the rows of record i (from 0)
CfiRowsOfRecord(record, i) ==
    IF ~IsDict(record) THEN Fail(NoGetAttribute(record))
    ELSE
    LET identifier == Get(record, "Identifier", EmptyDict) IN
    IF ~IsDict(identifier) THEN Fail(NoGetAttribute(identifier))
    ELSE
    LET upi == Get(identifier, "UPI", JStr("Record_" \o IntStr(i)))
        instrument_type == get_instrument_type(record)
    IN
    IF ~instrument_type.ok THEN instrument_type
    ELSE
    LET derived == Get(record, "Derived", EmptyDict) IN
    IF ~IsDict(derived) THEN Fail(NoGetAttribute(derived))
    ELSE
    LET cfi_list == IterElems(Get(derived, "CFI", JList(<<>>))) IN
    IF ~cfi_list.ok THEN cfi_list
    ELSE FirstFailure([c \in 1..Len(cfi_list.val) |->
                          CfiRow(cfi_list.val[c], upi, instrument_type.val)])

_extract_cfi_data(recs) ==
    LET perRecord == FirstFailure([i \in 1..Len(recs) |->
                                      CfiRowsOfRecord(recs[i], i - 1)])
    IN  IF ~perRecord.ok THEN perRecord ELSE Ok(Flatten1(perRecord.val))

\* json.dumps(v, ensure_ascii=False), for strings of plain characters
RECURSIVE JsonDumps(_)
JsonDumps(v) ==
    CASE v.t = "null" -> "null"
      [] v.t = "bool" -> IF v.b THEN "true" ELSE "false"
      [] v.t = "num"  -> IntStr(v.n)
      [] v.t = "str"  -> "\"" \o v.s \o "\""
      [] v.t = "list" ->
            "[" \o Join(", ", [i \in 1..Len(v.el) |-> JsonDumps(v.el[i])])
                \o "]"
      [] v.t = "dict" ->
            "{" \o Join(", ", [i \in 1..Len(v.kv) |->
                      "\"" \o v.kv[i][1] \o "\": " \o JsonDumps(v.kv[i][2])])
                \o "}"

\* JSONFlattener.flatten_dict(r), called on a record of any type
FlattenRecord(r) ==
    IF IsDict(r) THEN Ok(flatten_dict(r, "", "_"))
    ELSE Fail(NoAttribute(r, "items"))

\* The row of a record in minimal mode
SimpleRecord(r) ==
    IF ~IsDict(r) THEN Fail(NoAttribute(r, "items"))
    ELSE Ok(DictOf([i \in 1..Len(r.kv) |->
                <<r.kv[i][1],
                  IF r.kv[i][2].t \in {"dict", "list"}
                  THEN JStr(JsonDumps(r.kv[i][2]))
                  ELSE r.kv[i][2]>>]))

Sheet(name, rows) == [name |-> name, rows |-> rows]

\* The "CFI Details" sheet, when there are CFI rows
CfiSheets(cfi_data) ==
    IF cfi_data # <<>> THEN <<Sheet("CFI Details", cfi_data)>> ELSE <<>>

\* The rows of the Summary sheet
SummaryData(grouped, recs) ==
    [g \in 1..Len(grouped) |->
        << <<"Instrument Type", grouped[g][1]>>,
           <<"Record Count", JNum(Len(grouped[g][2]))>> >>]
    \o << << <<"Instrument Type", JStr("TOTAL")>>,
             <<"Record Count", JNum(Len(recs))>> >> >>

\* The sheet of one instrument type
TypeSheet(instrument_type, type_records) ==
    LET type_data == FirstFailure([i \in 1..Len(type_records) |->
            extract_key_fields_for_instrument(type_records[i],
                                              instrument_type)])
    IN  IF ~type_data.ok THEN type_data
        ELSE IF instrument_type.t # "str"
        THEN Fail(NotSubscriptable(instrument_type))
        ELSE Ok(Sheet(SheetName(instrument_type.s), type_data.val))

SmartByTypeSheets(recs) ==
    LET grouped == group_by_instrument_type(recs) IN
    IF ~grouped.ok THEN grouped
    ELSE
    LET typeSheets == FirstFailure([g \in 1..Len(grouped.val) |->
            TypeSheet(grouped.val[g][1], grouped.val[g][2])])
    IN
    IF ~typeSheets.ok THEN typeSheets
    ELSE
    LET cfi_data == _extract_cfi_data(recs) IN
    IF ~cfi_data.ok THEN cfi_data
    ELSE Ok(<<Sheet("Summary", SummaryData(grouped.val, recs))>>
            \o typeSheets.val
            \o CfiSheets(cfi_data.val))

SmartSheets(recs) ==
    LET main_data == FirstFailure([i \in 1..Len(recs) |->
                                      extract_key_fields(recs[i], TRUE)])
    IN
    IF ~main_data.ok THEN main_data
    ELSE
    LET cfi_data == _extract_cfi_data(recs) IN
    IF ~cfi_data.ok THEN cfi_data
    ELSE
    LET flat_data == FirstFailure([i \in 1..Len(recs) |->
                                      FlattenRecord(recs[i])])
    IN
    IF ~flat_data.ok THEN flat_data
    ELSE Ok(<<Sheet("Main Data", main_data.val)>>
            \o CfiSheets(cfi_data.val)
            \o <<Sheet("Full Data (Flattened)", flat_data.val)>>)

FullSheets(recs) ==
    LET flat_data == FirstFailure([i \in 1..Len(recs) |->
                                      FlattenRecord(recs[i])])
    IN  IF ~flat_data.ok THEN flat_data
        ELSE Ok(<<Sheet("Data", flat_data.val)>>)

MinimalSheets(recs) ==
    LET simple_data == FirstFailure([i \in 1..Len(recs) |->
                                        SimpleRecord(recs[i])])
    IN  IF ~simple_data.ok THEN simple_data
        ELSE Ok(<<Sheet("Data", simple_data.val)>>)

\* create_excel(records, flatten_mode): the sheets written, in order
create_excel(recs, flatten_mode) ==
    IF flatten_mode = "smart_by_type" THEN SmartByTypeSheets(recs)
    ELSE IF flatten_mode = "smart" THEN SmartSheets(recs)
    ELSE IF flatten_mode = "full" THEN FullSheets(recs)
    ELSE MinimalSheets(recs)

----------------------------------------------------------------------------
(* The display functions and main.  The page is outside the program: a     *)
(* display function is what it computes before rendering, or what it       *)
(* raises; main is the outcome of one request.                             *)

StatisticsSample == 100
PreviewLimit == 10

\* The set of the keys seen in the flattened sample records
RECURSIVE AllKeys(_)
AllKeys(flats) ==
    IF flats = <<>> THEN {} ELSE KeySet(flats[1]) \cup AllKeys(Tail(flats))

\* display_statistics(records, format_desc, filename)
display_statistics(recs, desc) ==
    LET flats == FirstFailure([i \in 1..Len(Take(recs, StatisticsSample)) |->
                                  FlattenRecord(recs[i])])
    IN  IF ~flats.ok THEN flats
        ELSE Ok([total |-> Len(recs),
                 unique_fields |-> Cardinality(AllKeys(flats.val)),
                 format_desc |-> desc,
                 sample_size |-> IF recs # <<>>
                                 THEN Len(JsonDumps(recs[1])) ELSE 0])

\* display_data_preview(records)
display_data_preview(recs) ==
    LET grouped == group_by_instrument_type(recs) IN
    IF ~grouped.ok THEN grouped
    ELSE
    LET preview_data == FirstFailure([i \in 1..Len(Take(recs, PreviewLimit)) |->
                                         extract_key_fields(recs[i], TRUE)])
    IN  IF ~preview_data.ok THEN preview_data
        ELSE Ok([distribution |->
                    IF Len(grouped.val) > 1
                    THEN [g \in 1..Len(grouped.val) |->
                             <<grouped.val[g][1], Len(grouped.val[g][2])>>]
                    ELSE <<>>,
                 preview |-> preview_data.val])

\* display_structure_analysis(records)
display_structure_analysis(recs) ==
    IF recs # <<>> /\ ~IsDict(recs[1])
    THEN Fail(NoAttribute(recs[1], "keys"))
    ELSE
    LET grouped == group_by_instrument_type(recs) IN
    IF ~grouped.ok THEN grouped
    ELSE Ok([top_level |-> IF recs # <<>> THEN Keys(recs[1].kv) ELSE <<>>,
             configs |-> [g \in 1..Len(grouped.val) |->
                             SpecificConfig(grouped.val[g][1])]])

\* What a request leaves behind: the outcome shown to the user, the message
\* of st.error, the calls of create_excel made (their records argument),
\* and the sheets of the workbook offered for download.
Outcome(kind, message, excel_calls, workbook) ==
    [outcome |-> kind, message |-> message,
     excel_calls |-> excel_calls, workbook |-> workbook]

\* except ValueError / except Exception, after excel_calls were made.  The
\* messages are those of st.error without their leading pictogram; a decode
\* error's message is the decoder's text without its ": line, column"
\* suffix.
Caught(e, excel_calls) ==
    IF e.exc = "ValueError"
    THEN Outcome("parse_error", "Error parsing file: " \o e.msg,
                 excel_calls, <<>>)
    ELSE Outcome("unexpected_error",
                 "An unexpected error occurred: " \o e.msg, excel_calls, <<>>)

\* From the success message to the download button
Convert(recs, desc, flatten_mode) ==
    LET stats == display_statistics(recs, desc) IN
    IF ~stats.ok THEN Caught(stats.error, <<>>)
    ELSE
    LET preview == display_data_preview(recs) IN
    IF ~preview.ok THEN Caught(preview.error, <<>>)
    ELSE
    LET structure == display_structure_analysis(recs) IN
    IF ~structure.ok THEN Caught(structure.error, <<>>)
    ELSE
    LET excel_buffer == create_excel(recs, flatten_mode) IN
    IF ~excel_buffer.ok THEN Caught(excel_buffer.error, <<recs>>)
    ELSE Outcome("converted", "", <<recs>>, excel_buffer.val)

\* main without the check for an empty record list.
AfterParse_Unguarded(recs, desc, flatten_mode) ==
    Convert(recs, desc, flatten_mode)

\* if not records: st.error("No valid records found in the file."); return
AfterParse(recs, desc, flatten_mode) ==
    IF recs = <<>>
    THEN Outcome("no_records", "No valid records found in the file.",
                 <<>>, <<>>)
    ELSE Convert(recs, desc, flatten_mode)

\* main(): one run of the page with the output mode chosen in the sidebar
\* and, when a file is uploaded, its content
main(uploaded, upload, flatten_mode) ==
    IF ~uploaded THEN Outcome("placeholder", "", <<>>, <<>>)
    ELSE
    LET parsed == parse_file(upload) IN
    IF ~parsed.ok THEN Caught(parsed.error, <<>>)
    ELSE AfterParse(parsed.records, parsed.format_desc, flatten_mode)

(* The request flow                                                        *)

MaxUploadLen == 4

FlattenModes == {"smart_by_type", "smart", "full", "minimal"}

MainInit ==
    /\ pc = "request"
    /\ call \in {[fn |-> "main", flatten_mode |-> m, uploaded |-> u] :
                    m \in FlattenModes, u \in BOOLEAN}
    /\ content \in IF call.uploaded THEN ContentsUpTo(MaxUploadLen)
                   ELSE {Unused}
    /\ records = Unused
    /\ format_desc = Unused
    /\ attempts = Unused
    /\ error = NoError
    /\ ret = Unused

Main ==
    /\ pc = "request"
    /\ call.fn = "main"
    /\ LET parsed == IF call.uploaded THEN parse_file(content)
                     ELSE [ok |-> FALSE]
       IN  /\ records' = IF parsed.ok THEN parsed.records ELSE records
           /\ format_desc' = IF parsed.ok THEN parsed.format_desc
                             ELSE format_desc
    /\ ret' = main(call.uploaded, content, call.flatten_mode)
    /\ pc' = "done"
    /\ UNCHANGED <<content, call, attempts, error>>

MainNext == Main

SpecMain == MainInit /\ [][MainNext]_vars

(* Claims about the request flow                                           *)

RequestDone == pc = "done" /\ call.fn = "main"

ParsedEmpty ==
    /\ call.uploaded
    /\ parse_file(content).ok
    /\ parse_file(content).records = <<>>

\* C3: a request whose parse succeeds with no records ends in the "no
\* records" outcome without any call of create_excel, and every call of
\* create_excel in any request has a non-empty record sequence.
C3_NoExcelWithoutRecords ==
    RequestDone =>
        /\ ParsedEmpty => /\ ret.outcome = "no_records"
                          /\ ret.excel_calls = <<>>
        /\ \A i \in 1..Len(ret.excel_calls) : ret.excel_calls[i] # <<>>

\* C3 witness: the request for an uploaded empty JSON array has ended with
\* the "no records" outcome
C3_Witness ==
    /\ RequestDone
    /\ ParsedEmpty
    /\ content = <<"[", "]">>
    /\ ret.outcome = "no_records"

----------------------------------------------------------------------------
(* create_excel as the operation under study                               *)

MaxSheetRecords == 2

\* A CFI entry with the given attributes
CfiEntry(value, attrs) ==
    JDict(<< <<"Version", JStr("2015")>>,
             <<"Value", JStr(value)>>,
             <<"Category", JDict(<<<<"Code", JStr("J")>>>>)>>,
             <<"Attributes", JList(attrs)>> >>)

CfiAttr(name) == JDict(<< <<"Name", JStr(name)>>, <<"Code", JStr("X")>> >>)

\* A record of the given Header with the given Derived.CFI
WithCfi(h, cfi) ==
    MkRecord(<< <<"Header", h>>,
                <<"Derived", JDict(<<<<"CFI", JList(cfi)>>>>)>> >>)

\* The records create_excel is called with: records of a known type, with
\* and without CFI entries and nested fields; records whose type is not a
\* plain name or is the name of a fixed sheet; and records with a section
\* or a type that is null, a scalar or a list.
ExcelRecords ==
    { JDict(<<>>),
      WithUPI(HeaderOfType(JStr("Swap")), "U1"),
      WithCfi(HeaderOfType(JStr("Option")),
              <<CfiEntry("JTKCXX", <<CfiAttr("Style")>>)>>),
      MkRecord(<< <<"Header", HeaderOfType(JStr("Future"))>>,
                  <<"Extra", JDict(<<<<"a", JList(<<JNum(1), JNum(1)>>)>>>>)>>,
                  <<"Attributes",
                    JDict(<<<<"ExpiryDate", JStr("2030-01-01")>>>>)>> >>),
      WithUPI(HeaderOfType(JStr("Swap!")), "U2"),
      WithUPI(HeaderOfType(JStr("Summary")), "U1"),
      WithCfi(HeaderOfType(JStr("CFI Details")),
              <<CfiEntry("JTKCXX", <<>>)>>),
      WithUPI(HeaderOfType(JNull), "U1"),
      WithUPI(JNull, "U1"),
      MkRecord(<<<<"Identifier", JNull>>>>),
      MkRecord(<<<<"Derived", JNum(1)>>>>),
      MkRecord(<<<<"Attributes", JStr("x")>>>>),
      WithUPI(HeaderOfType(JList(<<JStr("Swap")>>)), "U1") }

\* The modes create_excel is called with: the four of the sidebar and two
\* strings that are none of them
ModeArgs == FlattenModes \cup {"bogus", ""}

ExcelInit ==
    /\ pc = "call"
    /\ call \in {[fn |-> "create_excel", records |-> recs,
                  flatten_mode |-> m] :
                    recs \in SeqsUpTo(ExcelRecords, MaxSheetRecords),
                    m \in ModeArgs}
    /\ ret = Unused
    /\ error = NoError
    /\ content = Unused
    /\ records = Unused
    /\ format_desc = Unused
    /\ attempts = Unused

CreateExcel ==
    /\ pc = "call"
    /\ call.fn = "create_excel"
    /\ LET x == create_excel(call.records, call.flatten_mode) IN
       /\ pc' = IF x.ok THEN "returned" ELSE "raised"
       /\ ret' = IF x.ok THEN x.val ELSE ret
       /\ error' = IF x.ok THEN error ELSE x.error
    /\ UNCHANGED <<call, content, records, format_desc, attempts>>

ExcelNext == CreateExcel

SpecExcel == ExcelInit /\ [][ExcelNext]_vars

(* Claims about the workbook                                               *)

Written == pc = "returned" /\ call.fn = "create_excel"

SheetNames == [i \in 1..Len(ret) |-> ret[i].name]

\* C11: in smart_by_type mode the names of the sheets written (Summary, one
\* per instrument type, CFI Details when present) are pairwise distinct.
C11_SheetNamesDistinct ==
    (Written /\ call.flatten_mode = "smart_by_type") =>
        \A i, j \in 1..Len(ret) : i # j => ret[i].name # ret[j].name

----------------------------------------------------------------------------
(* _extract_cfi_data as the operation under study                          *)

MaxCfiRecords == 3

\* A record with the given Identifier.UPI (or none) and Derived.CFI (or no
\* Derived at all)
CfiRecord(upi, cfi) ==
    MkRecord(<< <<"Identifier",
                  IF upi = Absent THEN Absent ELSE JDict(<<<<"UPI", upi>>>>)>>,
                <<"Derived",
                  IF cfi = Absent THEN Absent ELSE JDict(<<<<"CFI", cfi>>>>)>> >>)

\* The Derived.CFI values: none, empty, one entry, two entries; the
\* entries have no, one or two attributes, or no Attributes key
CfiLists ==
    { Absent,
      JList(<<>>),
      JList(<<CfiEntry("JTKCXX", <<CfiAttr("Style"), CfiAttr("Delivery")>>)>>),
      JList(<< CfiEntry("HCAXXX", <<>>),
               JDict(<<<<"Value", JStr("JTKCXC")>>>>),
               CfiEntry("HCAXXP", <<CfiAttr("Style")>>) >>) }

\* The records: with and without a UPI, over the CFI lists; and one whose
\* Derived is null
CfiRecords ==
    {CfiRecord(u, c) : u \in {Absent, JStr("U1")}, c \in CfiLists}
    \cup {MkRecord(<<<<"Derived", JNull>>>>)}

CfiInit ==
    /\ pc = "call"
    /\ call \in {[fn |-> "_extract_cfi_data", records |-> recs] :
                    recs \in SeqsUpTo(CfiRecords, MaxCfiRecords)}
    /\ ret = Unused
    /\ error = NoError
    /\ content = Unused
    /\ records = Unused
    /\ format_desc = Unused
    /\ attempts = Unused

ExtractCfiData ==
    /\ pc = "call"
    /\ call.fn = "_extract_cfi_data"
    /\ LET x == _extract_cfi_data(call.records) IN
       /\ pc' = IF x.ok THEN "returned" ELSE "raised"
       /\ ret' = IF x.ok THEN x.val ELSE ret
       /\ error' = IF x.ok THEN error ELSE x.error
    /\ UNCHANGED <<call, content, records, format_desc, attempts>>

CfiNext == ExtractCfiData

SpecCfi == CfiInit /\ [][CfiNext]_vars

(* Claims about the CFI rows                                               *)

CfiDone == pc = "returned" /\ call.fn = "_extract_cfi_data"

\* Derived.CFI of a record whose Derived is absent or a mapping and whose
\* CFI is absent or a list
CfiOf(r) ==
    IF HasSection(r, "Derived") /\ HasKey(Section(r, "Derived").kv, "CFI")
    THEN Lookup(Section(r, "Derived").kv, "CFI").el
    ELSE <<>>

CfiShaped(r) ==
    /\ WellShaped(r)
    /\ (HasSection(r, "Derived") /\ HasKey(Section(r, "Derived").kv, "CFI"))
          => IsList(Lookup(Section(r, "Derived").kv, "CFI"))

\* The (record position, entry position) pairs, by record and then entry
CfiPairs(recs) ==
    Flatten1([p \in 1..Len(recs) |->
                 [c \in 1..Len(CfiOf(recs[p])) |-> <<p, c>>]])

RECURSIVE CfiTotal(_)
CfiTotal(recs) ==
    IF recs = <<>> THEN 0 ELSE Len(CfiOf(recs[1])) + CfiTotal(Tail(recs))

\* Identifier.UPI of the record at position p (from 1), "Record_<p-1>"
\* when it has none
UpiOf(recs, p) ==
    IF HasSection(recs[p], "Identifier")
       /\ HasKey(Section(recs[p], "Identifier").kv, "UPI")
    THEN Lookup(Section(recs[p], "Identifier").kv, "UPI")
    ELSE JStr("Record_" \o IntStr(p - 1))

CfiFixedColumns ==
    << "UPI", "InstrumentType", "CFI_Version", "CFI_VersionStatus",
       "CFI_Value", "CFI_Category_Code", "CFI_Category_Value",
       "CFI_Group_Code", "CFI_Group_Value" >>

\* The attribute columns of an entry with k attributes
AttrColumns(k) ==
    Flatten1([j \in 1..k |-> << "Attr" \o IntStr(j) \o "_Name",
                                "Attr" \o IntStr(j) \o "_Code",
                                "Attr" \o IntStr(j) \o "_Value" >>])

AttrCount(cfi) ==
    IF HasKey(cfi.kv, "Attributes") THEN Len(Lookup(cfi.kv, "Attributes").el)
    ELSE 0

\* C12: _extract_cfi_data returns one row per (record, CFI entry) pair, by
\* record position and then entry position, so as many rows as the
\* Derived.CFI lists have entries in all; a row's UPI is its record's
\* Identifier.UPI, or "Record_<i>" with i the record's 0-based position;
\* and a row of an entry with k attributes has the 9 fixed columns followed
\* by the Name/Code/Value columns of Attr1..Attrk.
C12_OneRowPerCfiEntry ==
    /\ (call.fn = "_extract_cfi_data"
        /\ \A p \in 1..Len(call.records) : CfiShaped(call.records[p]))
          => pc # "raised"
    /\ CfiDone =>
        LET pairs == CfiPairs(call.records) IN
        /\ Len(ret) = CfiTotal(call.records)
        /\ Len(ret) = Len(pairs)
        /\ \A n \in 1..Len(ret) :
              LET p == pairs[n][1]
                  cfi == CfiOf(call.records[p])[pairs[n][2]]
              IN  /\ Lookup(ret[n], "UPI") = UpiOf(call.records, p)
                  /\ Lookup(ret[n], "CFI_Value") = Get(cfi, "Value", EmptyStr)
                  /\ Keys(ret[n])
                        = CfiFixedColumns \o AttrColumns(AttrCount(cfi))

\* C12 witness: three records, the second without a UPI and with three CFI
\* entries, the third with one entry of two attributes, gave four rows.
C12_Witness ==
    /\ CfiDone
    /\ Len(call.records) = 3
    /\ Len(CfiOf(call.records[1])) = 0
    /\ Len(CfiOf(call.records[2])) = 3
    /\ ~HasSection(call.records[2], "Identifier")
    /\ Len(CfiOf(call.records[3])) = 1
    /\ Len(ret) = 4
    /\ Lookup(ret[2], "UPI") = JStr("Record_1")
    /\ Len(ret[4]) = 15

\* C13: for every non-empty sequence of records that are JSON objects,
\* whatever the shape of their sections and of Header.InstrumentType, and
\* for each of the four modes, create_excel builds its rows without raising.
C13_RowBuildingNeverRaises ==
    (call.fn = "create_excel"
        /\ call.flatten_mode \in FlattenModes
        /\ call.records # <<>>
        /\ \A i \in 1..Len(call.records) : IsDict(call.records[i]))
      => pc # "raised"

\* C14: called with a mode that is none of the four, create_excel either
\* raises or writes exactly the sheets of mode "smart" for the same records;
\* it never writes the output of another mode.
C14_UnknownModeRejectedOrSmart ==
    (call.fn = "create_excel" /\ call.flatten_mode \notin FlattenModes
        /\ pc \in {"returned", "raised"})
      => \/ pc = "raised"
         \/ /\ create_excel(call.records, "smart").ok
            /\ ret = create_excel(call.records, "smart").val

----------------------------------------------------------------------------
(* Claims about parse_file after a failed line-by-line attempt             *)

\* The line-by-line attempt is made and some non-blank line is no JSON value
LineFails(c) ==
    /\ NdjsonGuard(Lines(c))
    /\ \E i \in 1..Len(NonBlankLines(c)) : ~json_loads(NonBlankLines(c)[i]).ok

\* The records of a whole document: the elements of an array, the object
\* itself, nothing for a scalar
WholeRecords(v) ==
    IF IsList(v) THEN v.el ELSE IF IsDict(v) THEN <<v>> ELSE <<>>

\* C15: when some line fails during the line-by-line attempt and parse_file
\* still returns, the records returned are those of the whole-document
\* parse alone, for an array, an object and a scalar; whenever values of
\* earlier lines were kept from the abandoned attempt, the whole document
\* does not parse and nothing is returned.
C15_NoPartialNdjson ==
    /\ (pc = "returned" /\ LineFails(content)) =>
          /\ json_loads(content).ok
          /\ records = WholeRecords(json_loads(content).val)
          /\ format_desc # "JSON Lines (NDJSON)"
          /\ attempts = <<"ndjson", "whole">>
    /\ (pc = "whole" /\ records # <<>>) => ~json_loads(content).ok

\* C15 witness: a two-line array whose first line is no JSON value was
\* returned as the array's elements after the abandoned attempt.
C15_Witness ==
    /\ pc = "returned"
    /\ LineFails(content)
    /\ Len(Lines(content)) = 2
    /\ attempts = <<"ndjson", "whole">>
    /\ format_desc = "JSON Array"
    /\ records # <<>>

\* A state the second conjunct of C15 is about: the attempt was abandoned
\* with the value of the first line kept
C15_PartialKept == pc = "whole" /\ records # <<>>

----------------------------------------------------------------------------
(* Claims about the keys flatten_dict builds                               *)

\* The number of (key, value) pairs the traversal of a dict emits: one per
\* scalar, empty list and list with a non-dict element; those of a nested
\* dict; those of the first three elements of a list of dicts, and one more
\* for the count when the list has more than three
RECURSIVE EmittedPairs(_)
EmittedPairs(d) ==
    LET OfValue(v) ==
            IF IsDict(v) THEN EmittedPairs(v)
            ELSE IF IsList(v) /\ v.el # <<>>
                    /\ \A i \in 1..Len(v.el) : IsDict(v.el[i])
            THEN LET n == IF Len(v.el) < 3 THEN Len(v.el) ELSE 3
                     OfElements[i \in 0..n] ==
                         IF i = 0 THEN 0
                         ELSE OfElements[i - 1] + EmittedPairs(v.el[i])
                 IN  OfElements[n] + (IF Len(v.el) > 3 THEN 1 ELSE 0)
            ELSE 1
        OfFields[i \in 0..Len(d.kv)] ==
            IF i = 0 THEN 0 ELSE OfFields[i - 1] + OfValue(d.kv[i][2])
    IN  OfFields[Len(d.kv)]

\* C16: distinct leaf positions of the record give distinct flattened keys:
\* the returned mapping has as many entries as the traversal emitted pairs,
\* none having been overwritten.
C16_NoKeyCollision ==
    Flattened => Len(ret) = EmittedPairs(call.d)

\* The keys of element i (from 0) of the field when its index is joined
\* with the separator of the call
SepElementKeys(i) ==
    KeySet(flatten_dict(call.d.kv[1][2].el[i + 1],
                        FieldKey \o call.sep \o IntStr(i), call.sep))

\* C17: for every separator sep, the keys of the elements of a list of
\* dicts are prefix+sep+key+sep+index (then sep and the element's own key),
\* and the count key of a list of more than 3 is prefix+sep+key+sep+"count".
C17_SegmentsJoinedBySep ==
    (Flattened /\ OneDictListField(call.d)) =>
        LET n == Len(call.d.kv[1][2].el)
            shown == IF n < 3 THEN n ELSE 3
        IN  KeySet(ret) =
                UNION {SepElementKeys(i) : i \in 0..(shown - 1)}
                \cup (IF n > 3 THEN {FieldKey \o call.sep \o "count"} ELSE {})

=============================================================================
